---- MODULE Spec2Model ----
(***************************************************************************)
(* FidoAdapter (TOPPFidoAdapter): the protein-inference pipeline of        *)
(* OpenMS that writes a peptide-protein graph, runs the external engine    *)
(* Fido / FidoChooseParameters on it and reads the protein groups back.    *)
(*                                                                         *)
(* Strings whose characters matter (accessions, tokens) are sequences of   *)
(* one-character strings; strings that are only compared for equality      *)
(* (identifiers, labels, score types) are TLA+ strings.  Probabilities and  *)
(* scores are integers in units of 1/ONE, or NaN.                           *)
(***************************************************************************)
EXTENDS Integers, Sequences, FiniteSets, TLC

\* ------------------------------------------------------------------ bounds
\* most protein identification runs in an input file
MaxRuns == 2
\* most accessions drawn for the sanitizer's own specification
MaxAccessions == 3
\* most peptide identifications drawn for the graph encoder's own specification
MaxPeptides == 2
\* most lines of standard output drawn for the decoder's own specification
MaxLines == 2

\* ----------------------------------------------------------------- strings
\* character codes (ASCII) of the characters the model uses; what is read
\* through an end iterator orders before all of them
Ord ==
  ("\t" :> 9) @@ (" " :> 32) @@ ("," :> 44) @@ ("0" :> 48) @@ ("1" :> 49) @@
  ("2" :> 50) @@ ("3" :> 51) @@ ("4" :> 52) @@ ("5" :> 53) @@ ("6" :> 54) @@
  ("7" :> 55) @@ ("8" :> 56) @@ ("9" :> 57) @@ ("A" :> 65) @@ ("B" :> 66) @@
  ("C" :> 67) @@ ("_" :> 95) @@ ("x" :> 120) @@ ("{" :> 123) @@ ("}" :> 125) @@
  ("\r" :> 13) @@ ("end()" :> 0)

\* std::string operator<: lexicographic by character code, a proper prefix first
RECURSIVE StrLess(_, _)
StrLess(a, b) ==
  IF b = <<>> THEN FALSE
  ELSE IF a = <<>> THEN TRUE
  ELSE IF Ord[Head(a)] # Ord[Head(b)] THEN Ord[Head(a)] < Ord[Head(b)]
  ELSE StrLess(Tail(a), Tail(b))

\* iteration order of a std::set<String>: ascending by operator<
RECURSIVE SetInOrder(_)
SetInOrder(S) ==
  IF S = {} THEN <<>>
  ELSE LET m == CHOOSE x \in S : \A y \in S \ {x} : StrLess(x, y)
       IN  <<m>> \o SetInOrder(S \ {m})

\* String(Size): the decimal digits of a number
RECURSIVE NumberToString(_)
NumberToString(n) ==
  LET d == <<"0", "1", "2", "3", "4", "5", "6", "7", "8", "9">>
  IN  IF n < 10 THEN <<d[n + 1]>>
      ELSE NumberToString(n \div 10) \o <<d[(n % 10) + 1]>>

\* ------------------------------------------------------- accession sanitizer
\* the characters that end the valid prefix of an accession
UnsafeChars == {" ", "\t", ",", "{", "}"}

\* it->find_first_of(" \t,{}"), as the length of the prefix before the first
\* such character; the whole length (substr's npos) when there is none
FindFirstOf(s) ==
  IF \E i \in 1..Len(s) : s[i] \in UnsafeChars
  THEN (CHOOSE i \in 1..Len(s) :
          /\ s[i] \in UnsafeChars
          /\ \A j \in 1..(i - 1) : s[j] \notin UnsafeChars) - 1
  ELSE Len(s)

\* a variant in which the counter of line 576 is never advanced
SanitizedTokenNoCounter(acc, n) ==
  SubSeq(acc, 1, FindFirstOf(acc)) \o <<"_">> \o NumberToString(1)

\* it->substr(0, pos) + "_" + String(counter)
SanitizedToken(acc, n) ==
  SubSeq(acc, 1, FindFirstOf(acc)) \o <<"_">> \o NumberToString(n)

\* boost::bimap<String, String>::insert: refused when the left or the right
\* key is already present
BimapInsert(bm, l, r) ==
  IF \E p \in bm : p[1] = l \/ p[2] = r THEN bm ELSE bm \cup {<<l, r>>}

\* the loop over the sorted accession set, counter starting at `n`
RECURSIVE SanitizeFrom(_, _, _)
SanitizeFrom(order, n, bm) ==
  IF order = <<>> THEN bm
  ELSE SanitizeFrom(Tail(order), n + 1,
                    BimapInsert(bm, Head(order), SanitizedToken(Head(order), n)))

\* set<String> accessions: the accessions of all hits of all runs
AllAccessions(prots) ==
  UNION {{prots[i].hits[j].accession : j \in DOMAIN prots[i].hits} : i \in DOMAIN prots}

\* the first loop of the sanitizer block, then the second over the sorted set
SanitizeAccessions(prots) == SanitizeFrom(SetInOrder(AllAccessions(prots)), 1, {})

\* what dereferencing a find() that returned end() yields
EndIterator == <<"end()">>

\* sanitized_accessions_.left.find(acc)->second
LeftFind(bm, acc) ==
  IF \E p \in bm : p[1] = acc THEN (CHOOSE p \in bm : p[1] = acc)[2] ELSE EndIterator

\* sanitized_accessions_.right.find(tok)->second
RightFind(bm, tok) ==
  IF \E p \in bm : p[2] = tok THEN (CHOOSE p \in bm : p[2] = tok)[1] ELSE EndIterator

\* ------------------------------------------------------------------ doubles
\* the double 1.0 in the model's unit (scores and probabilities are halves)
ONE == 2
\* a double that is not a number: every comparison with it is false
NaN == 1000 * ONE
DLess(a, b) == a # NaN /\ b # NaN /\ a < b
DMinus(a, b) == IF a = NaN \/ b = NaN THEN NaN ELSE a - b

\* ------------------------------------------------------------ graph encoder
\* String::toLower() on the score types the model uses
ToLower(s) ==
  CASE s = "Posterior Error Probability" -> "posterior error probability"
    [] s = "Consensus_PEPMatrix" -> "consensus_pepmatrix"
    [] s = "XTandem" -> "xtandem"
    [] s = "Posterior Probability" -> "posterior probability"
    [] OTHER -> s

\* String::hasPrefix("consensus_") on the lower-cased score types
HasConsensusPrefix(s) == s \in {"consensus_pepmatrix", "consensus_best"}

\* insert hit h into a list already sorted best-first
RECURSIVE InsertHit(_, _, _)
InsertHit(h, hs, higher) ==
  IF hs = <<>> THEN <<h>>
  ELSE IF (IF higher THEN h.score > Head(hs).score ELSE h.score < Head(hs).score)
       THEN <<h>> \o hs
       ELSE <<Head(hs)>> \o InsertHit(h, Tail(hs), higher)

\* PeptideIdentification::sort(): best hit first, by the score orientation
RECURSIVE SortHits(_, _)
SortHits(hs, higher) ==
  IF hs = <<>> THEN <<>>
  ELSE InsertHit(hs[Len(hs)], SortHits(SubSeq(hs, 1, Len(hs) - 1), higher), higher)

\* one line of the graph file
GraphLine(tag, seq, tok, prob) == [tag |-> tag, seq |-> seq, tok |-> tok, prob |-> prob]

\* a variant without the test of line 319
RECURSIVE ProteinLinesWithEmpty(_, _)
ProteinLinesWithEmpty(order, bm) ==
  IF order = <<>> THEN <<>>
  ELSE <<GraphLine("r", "", LeftFind(bm, Head(order)), 0)>>
       \o ProteinLinesWithEmpty(Tail(order), bm)

\* the "r" lines of one hit: one per non-empty accession, in set order
RECURSIVE ProteinLines(_, _)
ProteinLines(order, bm) ==
  IF order = <<>> THEN <<>>
  ELSE (IF Head(order) = <<>> THEN <<>>
        ELSE <<GraphLine("r", "", LeftFind(bm, Head(order)), 0)>>)
       \o ProteinLines(Tail(order), bm)

\* a variant without the conversion of line 281
ResolvedScoreUnconverted(pep, hit, prob_param) ==
  IF prob_param = "" \/ prob_param \notin DOMAIN hit.meta
  THEN hit.score
  ELSE hit.meta[prob_param]

\* the score that is validated and written, lines 261-292
ResolvedScore(pep, hit, prob_param) ==
  IF prob_param = "" \/ prob_param \notin DOMAIN hit.meta
  THEN IF ~pep.higher_score_better
          /\ (ToLower(pep.score_type) = "posterior error probability"
              \/ HasConsensusPrefix(ToLower(pep.score_type)))
       THEN DMinus(ONE, hit.score)
       ELSE hit.score
  ELSE hit.meta[prob_param]

\* whether the primary score is used and is an error probability to convert
IsConverted(pep, hit, prob_param) ==
  /\ prob_param = "" \/ prob_param \notin DOMAIN hit.meta
  /\ ~pep.higher_score_better
  /\ \/ ToLower(pep.score_type) = "posterior error probability"
     \/ HasConsensusPrefix(ToLower(pep.score_type))

\* a variant without the comparison of line 298
ErrorReasonNoUpperBound(pep, hit, prob_param) ==
  IF DLess(ResolvedScore(pep, hit, prob_param), 0) THEN "score < 0"
  ELSE IF /\ prob_param = "" \/ prob_param \notin DOMAIN hit.meta
          /\ ~pep.higher_score_better
          /\ ~IsConverted(pep, hit, prob_param)
       THEN "lower scores are better"
       ELSE ""

\* error_reason after lines 263-301; "" when the hit is accepted
ErrorReason(pep, hit, prob_param) ==
  IF DLess(ResolvedScore(pep, hit, prob_param), 0) THEN "score < 0"
  ELSE IF DLess(ONE, ResolvedScore(pep, hit, prob_param)) THEN "score > 1"
  ELSE IF /\ prob_param = "" \/ prob_param \notin DOMAIN hit.meta
          /\ ~pep.higher_score_better
          /\ ~IsConverted(pep, hit, prob_param)
       THEN "lower scores are better"
       ELSE ""

\* whether the loop body reaches the score resolution for this identification
Qualifies(pep, identifier) ==
  /\ ~(identifier # "" /\ pep.identifier # identifier)
  /\ pep.hits # <<>>
  /\ SortHits(pep.hits, pep.higher_score_better)[1].sequence # ""
  /\ SortHits(pep.hits, pep.higher_score_better)[1].accessions # {}

\* one iteration of the loop of writePSMGraph_ on identification i
PsmStep(g, i, prob_param, identifier, bm) ==
  LET pep == g.peptides[i]
  IN
  IF (identifier # "" /\ pep.identifier # identifier) \/ pep.hits = <<>>
  THEN g
  ELSE
    LET sorted == [pep EXCEPT !.hits = SortHits(pep.hits, pep.higher_score_better)]
        hit    == sorted.hits[1]
        g1     == [g EXCEPT !.peptides[i] = sorted]
        reason == ErrorReason(sorted, hit, prob_param)
        rlines == ProteinLines(SetInOrder(hit.accessions), bm)
    IN
    IF hit.sequence = "" \/ hit.accessions = {} THEN g1
    ELSE IF reason # ""
    THEN [g1 EXCEPT !.error_reason = reason,
                    !.warnings = @ + (IF IsConverted(sorted, hit, prob_param)
                                         /\ ~g.warned_once THEN 1 ELSE 0),
                    !.warned_once = @ \/ IsConverted(sorted, hit, prob_param)]
    ELSE [g1 EXCEPT
            !.lines = @ \o <<GraphLine("e", hit.sequence, <<>>, 0)>> \o rlines
                        \o <<GraphLine("p", "", <<>>, ResolvedScore(sorted, hit, prob_param))>>,
            !.records = @ + 1,
            !.ub = @ \/ \E k \in DOMAIN rlines : rlines[k].tok = EndIterator,
            !.warnings = @ + (IF IsConverted(sorted, hit, prob_param)
                                 /\ ~g.warned_once THEN 1 ELSE 0),
            !.warned_once = @ \/ IsConverted(sorted, hit, prob_param)]

\* the loop from identification i on; it ends at the first throw
RECURSIVE PsmLoop(_, _, _, _, _)
PsmLoop(g, i, prob_param, identifier, bm) ==
  IF i > Len(g.peptides) \/ g.error_reason # "" THEN g
  ELSE PsmLoop(PsmStep(g, i, prob_param, identifier, bm), i + 1,
               prob_param, identifier, bm)

\* writePSMGraph_: the identifications as left by sort(), the lines written,
\* the reason of the exception thrown ("" for none), the advisories logged,
\* and whether an accession was looked up that the mapping does not hold
writePSMGraph_(peps, prob_param, identifier, bm) ==
  PsmLoop([peptides |-> peps, lines |-> <<>>, records |-> 0, error_reason |-> "",
           warned_once |-> FALSE, warnings |-> 0, ub |-> FALSE],
          1, prob_param, identifier, bm)

\* ------------------------------------------------------ protein list encoder
\* the loop over the hits of writeProteinLists_, from hit i on
RECURSIVE GatherTargetDecoy(_, _, _, _)
GatherTargetDecoy(hits, i, bm, l) ==
  IF i > Len(hits) \/ l.error_reason # "" THEN l
  ELSE LET sanitized == LeftFind(bm, hits[i].accession)
           l1 == [l EXCEPT !.ub = @ \/ sanitized = EndIterator]
       IN  GatherTargetDecoy(hits, i + 1, bm,
             IF hits[i].target_decoy = "target"
             THEN [l1 EXCEPT !.targets = @ \cup {sanitized}]
             ELSE IF hits[i].target_decoy = "decoy"
             THEN [l1 EXCEPT !.decoys = @ \cup {sanitized}]
             ELSE [l1 EXCEPT !.error_reason = "no target/decoy annotation"])

\* a variant without the else branch of lines 349-357
writeProteinListsUnchecked(hits, bm) ==
  LET l == GatherTargetDecoy(hits, 1, bm,
             [targets |-> {}, decoys |-> {}, error_reason |-> "", ub |-> FALSE,
              written |-> FALSE, lines |-> <<>>])
  IN  [l EXCEPT !.written = TRUE,
                !.lines = <<SetInOrder(l.targets), SetInOrder(l.decoys)>>]

\* a variant without the checks of lines 360-375
writeProteinListsAllowEmpty(hits, bm) ==
  LET l == GatherTargetDecoy(hits, 1, bm,
             [targets |-> {}, decoys |-> {}, error_reason |-> "", ub |-> FALSE,
              written |-> FALSE, lines |-> <<>>])
  IN  IF l.error_reason # "" THEN l
      ELSE [l EXCEPT !.written = TRUE,
                     !.lines = <<SetInOrder(l.targets), SetInOrder(l.decoys)>>]

\* writeProteinLists_: the reason of the exception thrown ("" for none) and,
\* when none is thrown, the two lines written (targets, decoys)
writeProteinLists_(hits, bm) ==
  LET l == GatherTargetDecoy(hits, 1, bm,
             [targets |-> {}, decoys |-> {}, error_reason |-> "", ub |-> FALSE,
              written |-> FALSE, lines |-> <<>>])
  IN  IF l.error_reason # "" THEN l
      ELSE IF l.targets = {} THEN [l EXCEPT !.error_reason = "no targets"]
      ELSE IF l.decoys = {} THEN [l EXCEPT !.error_reason = "no decoys"]
      ELSE [l EXCEPT !.written = TRUE,
                     !.lines = <<SetInOrder(l.targets), SetInOrder(l.decoys)>>]

\* ------------------------------------------------------------ result decoder
\* std::vector<String> operator<: lexicographic, by String operator<
RECURSIVE ListLess(_, _)
ListLess(a, b) ==
  IF b = <<>> THEN FALSE
  ELSE IF a = <<>> THEN TRUE
  ELSE IF StrLess(Head(a), Head(b)) THEN TRUE
  ELSE IF StrLess(Head(b), Head(a)) THEN FALSE
  ELSE ListLess(Tail(a), Tail(b))

\* ProteinGroup::operator<: by probability, then by the accession lists
GroupLess(a, b) ==
  \/ a.probability < b.probability
  \/ a.probability = b.probability /\ ListLess(a.accessions, b.accessions)

RECURSIVE InsertString(_, _)
InsertString(x, s) ==
  IF s = <<>> THEN <<x>>
  ELSE IF StrLess(x, Head(s)) THEN <<x>> \o s
  ELSE <<Head(s)>> \o InsertString(x, Tail(s))

\* sort(group.accessions.begin(), group.accessions.end())
RECURSIVE SortStrings(_)
SortStrings(s) ==
  IF s = <<>> THEN <<>> ELSE InsertString(Head(s), SortStrings(Tail(s)))

RECURSIVE InsertGroup(_, _)
InsertGroup(x, s) ==
  IF s = <<>> THEN <<x>>
  ELSE IF GroupLess(x, Head(s)) THEN <<x>> \o s
  ELSE <<Head(s)>> \o InsertGroup(x, Tail(s))

\* sort(groups.begin(), groups.end())
RECURSIVE SortGroups(_)
SortGroups(s) ==
  IF s = <<>> THEN <<>> ELSE InsertGroup(Head(s), SortGroups(Tail(s)))

\* lines 491-501 with the retention flag ignored
ParseStepKeepZero(a, accession, probability, keep_zero, bm) ==
  IF Len(accession) > 1
  THEN [a EXCEPT !.zero = IF probability = 0 THEN @ + 1 ELSE @,
                 !.accession = RightFind(bm, accession),
                 !.accessions = Append(@, RightFind(bm, accession)),
                 !.ub = @ \/ RightFind(bm, accession) = EndIterator]
  ELSE [a EXCEPT !.accession = accession]

\* lines 491-501: what one pass of the while loop does with the word that
\* `accession` holds after the extraction
ParseStep(a, accession, probability, keep_zero, bm) ==
  IF Len(accession) > 1
  THEN LET z == IF probability = 0 THEN a.zero + 1 ELSE a.zero
       IN  IF probability = 0 /\ ~keep_zero
           THEN [a EXCEPT !.zero = z, !.accession = accession]
           ELSE [a EXCEPT !.zero = z,
                          !.accession = RightFind(bm, accession),
                          !.accessions = Append(@, RightFind(bm, accession)),
                          !.ub = @ \/ RightFind(bm, accession) = EndIterator]
  ELSE [a EXCEPT !.accession = accession]

\* the while loop of lines 488-502 from word i on: one pass for each word,
\* and a last pass in which the extraction fails at the end of the line and
\* `accession` still holds what the pass before left in it
RECURSIVE ParseAccessions(_, _, _, _, _, _)
ParseAccessions(words, i, probability, keep_zero, bm, a) ==
  IF i > Len(words) THEN ParseStep(a, a.accession, probability, keep_zero, bm)
  ELSE ParseAccessions(words, i + 1, probability, keep_zero, bm,
                       ParseStep(a, words[i], probability, keep_zero, bm))

\* lines 483-502: the group and the zero count read from one line; the loop
\* is not entered when no probability can be read
ParseLine(line, keep_zero, bm) ==
  LET a == [zero |-> 0, accession |-> <<>>, accessions |-> <<>>, ub |-> FALSE]
  IN  IF line.parsed THEN ParseAccessions(line.words, 1, line.probability, keep_zero, bm, a)
      ELSE a

\* one iteration of the for loop of lines 478-509 without the sort of line 506
DecodeLineUnsorted(d, line, keep_zero, bm) ==
  LET a == ParseLine(line, keep_zero, bm)
  IN  [d EXCEPT
         !.zero_proteins = @ + a.zero,
         !.ub = @ \/ a.ub,
         !.protein_counter = @ + Len(a.accessions),
         !.groups = IF a.accessions = <<>> THEN @
                    ELSE Append(@, [probability |-> line.probability,
                                    accessions |-> a.accessions])]

\* one iteration of the for loop of lines 478-509
DecodeLine(d, line, keep_zero, bm) ==
  LET a == ParseLine(line, keep_zero, bm)
  IN  [d EXCEPT
         !.zero_proteins = @ + a.zero,
         !.ub = @ \/ a.ub,
         !.protein_counter = @ + Len(a.accessions),
         !.groups = IF a.accessions = <<>> THEN @
                    ELSE Append(@, [probability |-> line.probability,
                                    accessions |-> SortStrings(a.accessions)])]

RECURSIVE DecodeLines(_, _, _, _, _)
DecodeLines(d, lines, i, keep_zero, bm) ==
  IF i > Len(lines) THEN d
  ELSE DecodeLines(DecodeLine(d, lines[i], keep_zero, bm), lines, i + 1, keep_zero, bm)

\* lines 476-510: the groups as sorted, the two counters that are logged, and
\* whether a token was de-sanitized that the mapping does not hold
DecodeOutput(lines, keep_zero, bm) ==
  LET d == DecodeLines([groups |-> <<>>, protein_counter |-> 0, zero_proteins |-> 0,
                        ub |-> FALSE], lines, 1, keep_zero, bm)
  IN  [d EXCEPT !.groups = SortGroups(@)]

\* ---------------------------------------------------------------- run merger
\* the (run, hit) positions in the order the two reverse loops visit them
RECURSIVE ReverseHits(_, _)
ReverseHits(prots, i) ==
  IF i = 0 THEN <<>>
  ELSE [k \in 1..Len(prots[i].hits) |-> <<i, Len(prots[i].hits) + 1 - k>>]
       \o ReverseHits(prots, i - 1)

ForwardHits(prots, i) ==
  LET r == ReverseHits(prots, i) IN [k \in 1..Len(r) |-> r[Len(r) + 1 - k]]

\* hit_map[accession] = &hit over the positions visited: a later assignment
\* replaces an earlier one
RECURSIVE AssignHits(_, _, _)
AssignHits(prots, order, hit_map) ==
  IF order = <<>> THEN hit_map
  ELSE LET pos == Head(order)
           acc == prots[pos[1]].hits[pos[2]].accession
       IN  AssignHits(prots, Tail(order),
                      (acc :> pos) @@ [a \in DOMAIN hit_map \ {acc} |-> hit_map[a]])

\* a variant that scans the runs and hits forwards
HitMapLastWins(prots) == AssignHits(prots, ForwardHits(prots, Len(prots)), <<>>)

\* map<String, ProteinHit*> hit_map after lines 657-667
HitMap(prots) == AssignHits(prots, ReverseHits(prots, Len(prots)), <<>>)

\* the hits inserted by lines 668-673, in the iteration order of the map
MergedHits(prots) ==
  LET hit_map == HitMap(prots)
      order   == SetInOrder(DOMAIN hit_map)
  IN  [k \in 1..Len(order) |-> prots[hit_map[order[k]][1]].hits[hit_map[order[k]][2]]]

\* the meta values Fido_prob_* of a run that has none
NoFidoMeta == [set |-> FALSE, protein |-> 0, peptide |-> 0, spurious |-> 0]

\* ProteinIdentification all_proteins as set up by lines 644-650 and 656-673
MergedRun(prots) ==
  [identifier |-> "", search_engine |-> "Fido", score_type |-> "Posterior Probability",
   higher_score_better |-> TRUE, hits |-> MergedHits(prots), groups |-> <<>>,
   fido_meta |-> NoFidoMeta]

\* a variant without the loop of lines 651-655
KeepIdentifiers(peps) == peps

\* lines 651-655: every peptide identification's identifier is cleared
ClearIdentifiers(peps) == [i \in DOMAIN peps |-> [peps[i] EXCEPT !.identifier = ""]]

\* findHit(acc)->setScore(p): the first hit with the accession gets the score
SetScore(hits, acc, p) ==
  IF \E j \in DOMAIN hits : hits[j].accession = acc
  THEN LET j == CHOOSE j \in DOMAIN hits :
                  /\ hits[j].accession = acc
                  /\ \A k \in 1..(j - 1) : hits[k].accession # acc
       IN  [hits EXCEPT ![j].score = p]
  ELSE hits

\* the accessions of all groups with their probabilities, in loop order
RECURSIVE GroupScores(_)
GroupScores(groups) ==
  IF groups = <<>> THEN <<>>
  ELSE [k \in DOMAIN Head(groups).accessions |->
          [accession |-> Head(groups).accessions[k],
           probability |-> Head(groups).probability]]
       \o GroupScores(Tail(groups))

RECURSIVE ApplyScores(_, _)
ApplyScores(hits, scores) ==
  IF scores = <<>> THEN hits
  ELSE ApplyScores(SetScore(hits, Head(scores).accession, Head(scores).probability),
                   Tail(scores))

\* a variant in which the loop of lines 679-688 stops after the first group
WriteBackFirstGroup(run) ==
  ApplyScores(run.hits, GroupScores(SubSeq(run.groups, 1, IF run.groups = <<>> THEN 0 ELSE 1)))

\* lines 678-688: the hits of the merged run after the write-back
WriteBackScores(run) == ApplyScores(run.hits, GroupScores(run.groups))

\* whether the write-back dereferences a findHit() that found nothing
WriteBackMisses(run) ==
  \E k \in DOMAIN GroupScores(run.groups) :
    \A j \in DOMAIN run.hits : run.hits[j].accession # GroupScores(run.groups)[k].accession

\* -------------------------------------------------------------------- inputs
AccA  == <<"A">>
AccAx == <<"A", " ", "x">>
AccB  == <<"B">>

ProteinHit(acc, td, score) == [accession |-> acc, target_decoy |-> td, score |-> score]

\* the protein hit lists a run of the input file may hold
HitLists ==
  { <<ProteinHit(AccA, "target", 1), ProteinHit(AccB, "decoy", 1)>>,
    <<ProteinHit(AccB, "decoy", 0), ProteinHit(AccA, "target", 0),
      ProteinHit(AccB, "target", 2)>>,
    <<ProteinHit(AccA, "target", 1), ProteinHit(AccB, "", 1)>>,
    <<ProteinHit(AccAx, "target", 2)>> }

RunIdentifier(i) == <<"run1", "run2", "run3", "run4">>[i]

\* whether the run was through an inference before: then it is loaded with
\* groups and Fido meta values (here: the runs with two hits)
AnalysedBefore(hits) == Len(hits) = 2

\* a ProteinIdentification as loaded
LoadedRun(i, hits) ==
  [identifier |-> RunIdentifier(i), search_engine |-> "Mascot", score_type |-> "Mascot",
   higher_score_better |-> TRUE, hits |-> hits,
   groups |-> IF AnalysedBefore(hits)
              THEN <<[probability |-> 1, accessions |-> <<hits[1].accession>>]>>
              ELSE <<>>,
   fido_meta |-> IF AnalysedBefore(hits)
                 THEN [set |-> TRUE, protein |-> 1, peptide |-> 1, spurious |-> 1]
                 ELSE NoFidoMeta]

\* the vector<ProteinIdentification> an input file may hold
ProteinInputs ==
  UNION {{[i \in 1..n |-> LoadedRun(i, hl[i])] : hl \in [1..n -> HitLists]} : n \in 0..MaxRuns}

NoMeta == <<>>
PeptideHit(score, seq, accs, meta) ==
  [score |-> score, sequence |-> seq, accessions |-> accs, meta |-> meta]
PeptideId(id, higher, type, hits) ==
  [identifier |-> id, higher_score_better |-> higher, score_type |-> type, hits |-> hits]

\* the vector<PeptideIdentification> an input file may hold
PeptideInputs ==
  { <<>>,
    <<PeptideId("run1", TRUE, "Posterior Probability",
                <<PeptideHit(1, "PEPA", {AccA}, NoMeta), PeptideHit(2, "PEPB", {AccA, AccB}, NoMeta)>>),
      PeptideId("run2", TRUE, "Posterior Probability",
                <<PeptideHit(2, "PEPC", {AccB}, NoMeta)>>)>>,
    <<PeptideId("run1", TRUE, "Posterior Probability",
                <<PeptideHit(2, "PEPA", {AccA}, NoMeta)>>),
      PeptideId("run2", TRUE, "Posterior Probability",
                <<PeptideHit(ONE + 1, "PEPC", {AccB}, NoMeta)>>)>> }

\* ----------------------------------------------------------- engine arguments
\* a string of the argument list is a sequence of pieces; the placeholders
\* and the pieces of a path are each one piece
temp_dir == "tmp/"

\* counter ? "." + String(counter) : ""
NumSuffix(c) == IF c = 0 THEN <<>> ELSE <<".">> \o NumberToString(c)

\* temp_dir + "fido_input_graph" + num + ".txt"
GraphPath(c) == <<temp_dir, "fido_input_graph">> \o NumSuffix(c) \o <<".txt">>
\* temp_dir + "fido_input_proteins" + num + ".txt"
ProteinsPath(c) == <<temp_dir, "fido_input_proteins">> \o NumSuffix(c) \o <<".txt">>
StatusPath(c) == <<temp_dir, "fido_status">> \o NumSuffix(c) \o <<".txt">>
OutputPath(c) == <<temp_dir, "fido_output">> \o NumSuffix(c) \o <<".txt">>

\* QString::replace(before, after) on one string
RECURSIVE ReplaceIn(_, _, _)
ReplaceIn(str, before, after) ==
  IF str = <<>> THEN <<>>
  ELSE (IF Head(str) = before THEN after ELSE <<Head(str)>>)
       \o ReplaceIn(Tail(str), before, after)

\* QStringList::replaceInStrings(before, after)
replaceInStrings(params, before, after) ==
  [k \in DOMAIN params |-> ReplaceIn(params[k], before, after)]

\* QString::number(double) for the model's halves
DoubleToString(v) ==
  IF v % 2 = 0 THEN NumberToString(v \div 2)
  ELSE NumberToString(v \div 2) \o <<".", "5">>

\* QStringList fido_params as assembled by lines 595-623 (no optional flag set)
InitialParams(choose, prob) ==
  IF choose THEN << <<"INPUT_GRAPH">>, <<"INPUT_PROTEINS">> >>
  ELSE << <<"INPUT_GRAPH">>, DoubleToString(prob.protein),
          DoubleToString(prob.peptide), DoubleToString(prob.spurious) >>

\* a file of the temporary directory: its path and what was written to it
TempFile(path, c, graph, proteins) ==
  [path |-> path, counter |-> c, graph |-> graph, proteins |-> proteins]
WriteFile(fs, f) == {x \in fs : x.path # f.path} \cup {f}

\* --------------------------------------------------------------------- state
VARIABLES
  pc,                     \* the step of main_ / runFido_ that comes next
  separate_runs,          \* flag separate_runs
  keep_zero_group,        \* flag keep_zero_group
  prob_param,             \* option prob_param
  debug_level_,           \* TOPPBase::debug_level_
  choose_params,          \* use FidoChooseParameters?
  exe,                    \* the executable that is started
  prob,                   \* prob_protein, prob_peptide, prob_spurious
  proteins,               \* vector<ProteinIdentification> proteins
  peptides,               \* vector<PeptideIdentification> peptides
  all_proteins,           \* the merged run of the pooled mode
  merged,                 \* whether runFido_ works on all_proteins
  sanitized_accessions_,  \* the bimap, as a set of (accession, token) pairs
  temp_dir_exists,        \* whether the temporary directory exists
  files,                  \* the files of the temporary directory
  fido_params,            \* QStringList fido_params
  counter,                \* the run counter handed to runFido_ (0: none)
  fido_success,           \* bool fido_success
  invocations,            \* history: every start of the engine
  returns,                \* history: what each call of runFido_ returned
  thrown,                 \* history: the exception that left main_, if any
  warnings,               \* history: advisories logged by writePSMGraph_
  stdout,                 \* history: the lines of the last standard output read
  fido_log,               \* history: the counts of the last "Inferred ..." message
  stored,                 \* the data written to the output file, if any
  exit_code               \* what main_ returned, "" while it runs

vars ==
  <<pc, separate_runs, keep_zero_group, prob_param, debug_level_, choose_params, exe,
    prob, proteins, peptides, all_proteins, merged, sanitized_accessions_,
    temp_dir_exists, files, fido_params, counter, fido_success, invocations,
    returns, thrown, warnings, stdout, fido_log, stored, exit_code>>

options == <<separate_runs, keep_zero_group, prob_param, debug_level_, choose_params, exe>>

NoRun == [identifier |-> "", search_engine |-> "", score_type |-> "",
          higher_score_better |-> TRUE, hits |-> <<>>, groups |-> <<>>,
          fido_meta |-> NoFidoMeta]
NoException == [reason |-> "", counter |-> 0, stage |-> ""]
NoLog == [logged |-> FALSE, protein_counter |-> 0, groups |-> 0, zero_proteins |-> 0]
NotStored == [written |-> FALSE, proteins |-> <<>>, peptides |-> <<>>]

Prob(a, b, c) == [protein |-> a, peptide |-> b, spurious |-> c]

\* a variant in which the parameter search is left out only when all three
\* probabilities are set
ChooseParamsUnlessAllSet(pr) == pr.protein = 0 \/ pr.peptide = 0 \/ pr.spurious = 0

\* lines 536-537: use FidoChooseParameters?
ChooseParams(pr) == pr.protein = 0 /\ pr.peptide = 0 /\ pr.spurious = 0

\* the state when main_ has read its options and loaded the input file
InitWith(sep, keep, pparam, dbg, pr, prots, peps) ==
  /\ pc = "check_input"
  /\ separate_runs = sep
  /\ keep_zero_group = keep
  /\ prob_param = pparam
  /\ debug_level_ = dbg
  /\ prob = pr
  /\ choose_params = ChooseParams(pr)
  /\ exe = IF ChooseParams(pr) THEN "FidoChooseParameters" ELSE "Fido"
  /\ proteins = prots
  /\ peptides = peps
  /\ all_proteins = NoRun
  /\ merged = FALSE
  /\ sanitized_accessions_ = {}
  /\ temp_dir_exists = FALSE
  /\ files = {}
  /\ fido_params = <<>>
  /\ counter = 0
  /\ fido_success = FALSE
  /\ invocations = <<>>
  /\ returns = <<>>
  /\ thrown = NoException
  /\ warnings = 0
  /\ stdout = <<>>
  /\ fido_log = NoLog
  /\ stored = NotStored
  /\ exit_code = ""

Init ==
  \E sep \in BOOLEAN, keep \in BOOLEAN, dbg \in 0..2,
     pr \in {Prob(0, 0, 0), Prob(1, 1, 1)},
     prots \in ProteinInputs, peps \in PeptideInputs :
    InitWith(sep, keep, "Posterior Probability_score", dbg, pr, prots, peps)

\* ------------------------------------------------------------------- actions
\* lines 556-561
CheckInput ==
  /\ pc = "check_input"
  /\ IF proteins = <<>> \/ peptides = <<>>
     THEN pc' = "done" /\ exit_code' = "INPUT_FILE_EMPTY"
     ELSE pc' = "sanitize" /\ UNCHANGED exit_code
  /\ UNCHANGED <<options, prob, proteins, peptides, all_proteins, merged,
                 sanitized_accessions_, temp_dir_exists, files, fido_params, counter,
                 fido_success, invocations, returns, thrown, warnings, stdout, fido_log, stored>>

\* lines 563-583
Sanitize ==
  /\ pc = "sanitize"
  /\ sanitized_accessions_' = SanitizeAccessions(proteins)
  /\ pc' = "create_temp_dir"
  /\ UNCHANGED <<options, prob, proteins, peptides, all_proteins, merged,
                 temp_dir_exists, files, fido_params, counter, fido_success,
                 invocations, returns, thrown, warnings, stdout, fido_log, stored, exit_code>>

\* lines 585-592
CreateTempDir ==
  /\ pc = "create_temp_dir"
  /\ temp_dir_exists' = TRUE
  /\ pc' = "fido_params"
  /\ UNCHANGED <<options, prob, proteins, peptides, all_proteins, merged,
                 sanitized_accessions_, files, fido_params, counter, fido_success,
                 invocations, returns, thrown, warnings, stdout, fido_log, stored, exit_code>>

\* lines 594-629 and 640-642: the argument list, then the branch on the mode
BuildParams ==
  /\ pc = "fido_params"
  /\ fido_params' = InitialParams(choose_params, prob)
  /\ fido_success' = FALSE
  /\ IF separate_runs THEN pc' = "write_graph" /\ counter' = 1
     ELSE IF Len(proteins) > 1 THEN pc' = "merge" /\ counter' = 0
     ELSE pc' = "write_graph" /\ counter' = 0
  /\ UNCHANGED <<options, prob, proteins, peptides, all_proteins, merged,
                 sanitized_accessions_, temp_dir_exists, files, invocations,
                 returns, thrown, warnings, stdout, fido_log, stored, exit_code>>

\* lines 644-673
MergeRuns ==
  /\ pc = "merge"
  /\ all_proteins' = MergedRun(proteins)
  /\ peptides' = ClearIdentifiers(peptides)
  /\ merged' = TRUE
  /\ pc' = "write_graph"
  /\ UNCHANGED <<options, prob, proteins, sanitized_accessions_, temp_dir_exists,
                 files, fido_params, counter, fido_success, invocations, returns,
                 thrown, warnings, stdout, fido_log, stored, exit_code>>

\* the ProteinIdentification handed to runFido_
Protein ==
  IF separate_runs THEN proteins[counter]
  ELSE IF merged THEN all_proteins
  ELSE proteins[1]

\* runFido_ writes through its reference `protein`
SetProtein(run) ==
  IF separate_runs THEN proteins' = [proteins EXCEPT ![counter] = run] /\ UNCHANGED all_proteins
  ELSE IF merged THEN all_proteins' = run /\ UNCHANGED proteins
  ELSE proteins' = [proteins EXCEPT ![1] = run] /\ UNCHANGED all_proteins

\* a variant in which fido_success accumulates over the runs
ReturnFromFidoAggregated(success, cause) ==
  /\ fido_success' = IF counter <= 1 THEN success ELSE (fido_success /\ success)
  /\ returns' = Append(returns, [counter |-> counter, success |-> success, cause |-> cause])
  /\ IF separate_runs /\ counter < Len(proteins)
     THEN pc' = "write_graph" /\ counter' = counter + 1
     ELSE /\ pc' = IF ~separate_runs /\ merged THEN "write_back" ELSE "store"
          /\ UNCHANGED counter

\* a variant in which a call that returns false ends main_
ReturnFromFidoFatal(success, cause) ==
  /\ fido_success' = success
  /\ returns' = Append(returns, [counter |-> counter, success |-> success, cause |-> cause])
  /\ IF ~success THEN pc' = "aborted" /\ UNCHANGED counter
     ELSE IF separate_runs /\ counter < Len(proteins)
     THEN pc' = "write_graph" /\ counter' = counter + 1
     ELSE /\ pc' = IF ~separate_runs /\ merged THEN "write_back" ELSE "store"
          /\ UNCHANGED counter

\* runFido_ returns `success` to main_ (lines 634, 675, 694): the assignment
\* to fido_success and the step of main_ that follows: the next run of the
\* loop, the write-back of the merged run, or the store
ReturnFromFido(success, cause) ==
  /\ fido_success' = success
  /\ returns' = Append(returns, [counter |-> counter, success |-> success, cause |-> cause])
  /\ IF separate_runs /\ counter < Len(proteins)
     THEN pc' = "write_graph" /\ counter' = counter + 1
     ELSE /\ pc' = IF ~separate_runs /\ merged THEN "write_back" ELSE "store"
          /\ UNCHANGED counter

\* a variant in which main_ catches the exception of an encoder and goes on
\* to store what it has
AfterEncodingStoring(error_reason, next) == IF error_reason # "" THEN "store" ELSE next

\* a variant in which the exception of an encoder is swallowed
AfterEncodingIgnoringError(error_reason, next) == next

\* where control goes after an encoder: an exception (lines 310, 355, 365,
\* 373) is caught neither by runFido_ nor by main_ and so leaves main_
AfterEncoding(error_reason, next) == IF error_reason # "" THEN "aborted" ELSE next

\* lines 404-409
GenerateGraph ==
  /\ pc = "write_graph"
  /\ LET g == writePSMGraph_(peptides, prob_param, Protein.identifier,
                             sanitized_accessions_)
     IN  /\ fido_params' = replaceInStrings(fido_params, "INPUT_GRAPH", GraphPath(counter))
         /\ peptides' = g.peptides
         /\ files' = WriteFile(files, TempFile(GraphPath(counter), counter, g.lines, <<>>))
         /\ warnings' = warnings + g.warnings
         /\ \/ /\ pc' = AfterEncoding(g.error_reason,
                                      IF choose_params THEN "write_proteins" ELSE "start_fido")
               /\ thrown' = IF g.error_reason # ""
                            THEN [reason |-> g.error_reason, counter |-> counter,
                                  stage |-> "graph"]
                            ELSE thrown
            \/ /\ g.ub
               /\ pc' = "crashed"
               /\ UNCHANGED thrown
  /\ UNCHANGED <<options, prob, proteins, all_proteins, merged, sanitized_accessions_,
                 temp_dir_exists, counter, fido_success, invocations, returns,
                 stdout, fido_log, stored, exit_code>>

\* lines 410-417
GenerateProteinLists ==
  /\ pc = "write_proteins"
  /\ LET l == writeProteinLists_(Protein.hits, sanitized_accessions_)
     IN  /\ fido_params' = replaceInStrings(fido_params, "INPUT_PROTEINS",
                                            ProteinsPath(counter))
         /\ \/ /\ pc' = AfterEncoding(l.error_reason, "start_fido")
               /\ thrown' = IF l.error_reason # ""
                            THEN [reason |-> l.error_reason, counter |-> counter,
                                  stage |-> "proteins"]
                            ELSE thrown
               /\ files' = IF l.written
                           THEN WriteFile(files, TempFile(ProteinsPath(counter), counter,
                                                          <<>>, l.lines))
                           ELSE files
            \/ /\ l.ub
               /\ pc' = "crashed"
               /\ UNCHANGED <<files, thrown>>
  /\ UNCHANGED <<options, prob, proteins, peptides, all_proteins, merged,
                 sanitized_accessions_, temp_dir_exists, counter, fido_success,
                 invocations, returns, warnings, stdout, fido_log, stored, exit_code>>

\* lines 420-421: fido.start(exe, fido_params)
StartFido ==
  /\ pc = "start_fido"
  /\ invocations' = Append(invocations,
                           [counter |-> counter, exe |-> exe, params |-> fido_params])
  /\ pc' = "wait_for_finished"
  /\ UNCHANGED <<options, prob, proteins, peptides, all_proteins, merged,
                 sanitized_accessions_, temp_dir_exists, files, fido_params, counter,
                 fido_success, returns, thrown, warnings, stdout, fido_log, stored,
                 exit_code>>

\* lines 423-429: waitForFinished fails
FidoNotFinished ==
  /\ pc = "wait_for_finished"
  /\ ReturnFromFido(FALSE, "not finished")
  /\ UNCHANGED <<options, prob, proteins, peptides, all_proteins, merged,
                 sanitized_accessions_, temp_dir_exists, files, fido_params,
                 invocations, thrown, warnings, stdout, fido_log, stored, exit_code>>

\* the status file of lines 437-443 and the output file of lines 467-473
DebugFiles(fs, status, output) ==
  LET f1 == IF debug_level_ > 1 /\ status
            THEN WriteFile(fs, TempFile(StatusPath(counter), counter, <<>>, <<>>)) ELSE fs
  IN  IF debug_level_ > 1 /\ output
      THEN WriteFile(f1, TempFile(OutputPath(counter), counter, <<>>, <<>>)) ELSE f1

\* a variant in which the groups are assigned before the standard error is
\* examined
FidoExceptionAfterAssignment ==
  /\ pc = "wait_for_finished"
  /\ choose_params
  /\ files' = DebugFiles(files, TRUE, FALSE)
  /\ fido_success' = FALSE
  /\ returns' = Append(returns, [counter |-> counter, success |-> FALSE,
                                 cause |-> "caught an exception"])
  /\ IF separate_runs /\ counter < Len(proteins)
     THEN pc' = "write_graph" /\ counter' = counter + 1
     ELSE /\ pc' = IF ~separate_runs /\ merged THEN "write_back" ELSE "store"
          /\ UNCHANGED counter
  /\ SetProtein([Protein EXCEPT !.groups = <<>>])
  /\ UNCHANGED <<options, prob, peptides, merged,
                 sanitized_accessions_, temp_dir_exists, fido_params,
                 invocations, thrown, warnings, stdout, fido_log, stored, exit_code>>

\* lines 433-453: the first line of the parameter search's standard error
\* starts with "caught an exception"
FidoException ==
  /\ pc = "wait_for_finished"
  /\ choose_params
  /\ files' = DebugFiles(files, TRUE, FALSE)
  /\ ReturnFromFido(FALSE, "caught an exception")
  /\ UNCHANGED <<options, prob, proteins, peptides, all_proteins, merged,
                 sanitized_accessions_, temp_dir_exists, fido_params,
                 invocations, thrown, warnings, stdout, fido_log, stored, exit_code>>

\* lines 431-521: the engine finished; `results` is what it may have printed:
\* the "Using best gamma, alpha, beta =" line, if any, and the lines of its
\* standard output
FidoFinished(results) ==
  /\ pc = "wait_for_finished"
  /\ \E r \in results :
       LET d == DecodeOutput(r.out, keep_zero_group, sanitized_accessions_)
           p == IF choose_params /\ r.best.found THEN r.best.prob ELSE prob
       IN  /\ files' = DebugFiles(files, choose_params, TRUE)
           /\ prob' = p
           /\ stdout' = r.out
           /\ \/ /\ SetProtein([Protein EXCEPT
                                  !.groups = d.groups,
                                  !.fido_meta = [set |-> TRUE, protein |-> p.protein,
                                                 peptide |-> p.peptide,
                                                 spurious |-> p.spurious]])
                 /\ fido_log' = [logged |-> TRUE, protein_counter |-> d.protein_counter,
                                 groups |-> Len(d.groups),
                                 zero_proteins |-> d.zero_proteins]
                 /\ ReturnFromFido(TRUE, "")
              \/ /\ d.ub
                 /\ pc' = "crashed"
                 /\ UNCHANGED <<proteins, all_proteins, counter, fido_success, returns,
                                fido_log>>
  /\ UNCHANGED <<options, peptides, merged, sanitized_accessions_, temp_dir_exists,
                 fido_params, invocations, thrown, warnings, stored, exit_code>>

\* lines 678-690
WriteBack ==
  /\ pc = "write_back"
  /\ \/ /\ all_proteins' = [all_proteins EXCEPT !.hits = WriteBackScores(all_proteins)]
        /\ proteins' = <<all_proteins'>>
        /\ pc' = "store"
     \/ /\ WriteBackMisses(all_proteins)
        /\ pc' = "crashed"
        /\ UNCHANGED <<all_proteins, proteins>>
  /\ UNCHANGED <<options, prob, peptides, merged, sanitized_accessions_, temp_dir_exists,
                 files, fido_params, counter, fido_success, invocations, returns,
                 thrown, warnings, stdout, fido_log, stored, exit_code>>

\* line 701
Store ==
  /\ pc = "store"
  /\ stored' = [written |-> TRUE, proteins |-> proteins, peptides |-> peptides]
  /\ pc' = "clean_up"
  /\ UNCHANGED <<options, prob, proteins, peptides, all_proteins, merged,
                 sanitized_accessions_, temp_dir_exists, files, fido_params, counter,
                 fido_success, invocations, returns, thrown, warnings, stdout, fido_log, exit_code>>

\* a variant that keeps the temporary files whenever the engine failed
CleanUpUnlessFailed ==
  /\ pc = "clean_up"
  /\ IF debug_level_ > 1 \/ ~fido_success THEN UNCHANGED <<temp_dir_exists, files>>
     ELSE temp_dir_exists' = FALSE /\ files' = {}
  /\ exit_code' = IF fido_success THEN "EXECUTION_OK" ELSE "EXTERNAL_PROGRAM_ERROR"
  /\ pc' = "done"
  /\ UNCHANGED <<options, prob, proteins, peptides, all_proteins, merged,
                 sanitized_accessions_, fido_params, counter, fido_success,
                 invocations, returns, thrown, warnings, stdout, fido_log, stored>>

\* lines 703-721
CleanUp ==
  /\ pc = "clean_up"
  /\ IF debug_level_ > 1 THEN UNCHANGED <<temp_dir_exists, files>>
     ELSE temp_dir_exists' = FALSE /\ files' = {}
  /\ exit_code' = IF fido_success THEN "EXECUTION_OK" ELSE "EXTERNAL_PROGRAM_ERROR"
  /\ pc' = "done"
  /\ UNCHANGED <<options, prob, proteins, peptides, all_proteins, merged,
                 sanitized_accessions_, fido_params, counter, fido_success,
                 invocations, returns, thrown, warnings, stdout, fido_log, stored>>

\* ------------------------------------------------------------- engine output
\* the tokens handed to the engine, in ascending order
Tokens == SetInOrder({p[2] : p \in sanitized_accessions_})

\* the words of "{ tok , tok , ... }"
RECURSIVE CommaSeparated(_)
CommaSeparated(toks) ==
  IF toks = <<>> THEN <<>>
  ELSE IF Len(toks) = 1 THEN toks
  ELSE <<Head(toks), <<",">>>> \o CommaSeparated(Tail(toks))

\* a line "<probability> { tok , ... }" of the engine's standard output
GroupLine(p, toks) ==
  [parsed |-> TRUE, probability |-> p,
   words |-> << <<"{">> >> \o CommaSeparated(toks) \o << <<"}">> >>]

\* the empty string that split("\n") yields after the last line break
EmptyLine == [parsed |-> FALSE, probability |-> 0, words |-> <<>>]

NoBest == [found |-> FALSE, prob |-> Prob(0, 0, 0)]
Best(a, b, c) == [found |-> TRUE, prob |-> Prob(a, b, c)]

\* a token the engine was never given
UnknownToken == <<"C", "_", "9">>

\* what the engine may print, for the pipeline as a whole
PipelineResults ==
  { [best |-> NoBest, out |-> <<GroupLine(ONE, Tokens), EmptyLine>>],
    [best |-> Best(1, 1, 2),
     out |-> <<GroupLine(1, SubSeq(Tokens, 1, 1)),
               GroupLine(0, SubSeq(Tokens, 2, Len(Tokens))), EmptyLine>>],
    [best |-> NoBest, out |-> <<GroupLine(1, <<UnknownToken>>), EmptyLine>>] }

\* --------------------------------------------------------------- the pipeline
Next ==
  \/ CheckInput
  \/ Sanitize
  \/ CreateTempDir
  \/ BuildParams
  \/ MergeRuns
  \/ GenerateGraph
  \/ GenerateProteinLists
  \/ StartFido
  \/ FidoNotFinished
  \/ FidoException
  \/ FidoFinished(PipelineResults)
  \/ WriteBack
  \/ Store
  \/ CleanUp

Spec == Init /\ [][Next]_vars

\* ------------------------------------------------- the sanitizer on its own
\* accessions with coinciding safe prefixes, with prefixes that end in
\* "_<digits>", with an empty prefix, and with every unsafe character
SanitizerAccessions ==
  { <<>>, <<" ", "A">>, <<"A">>, <<"A", "\t">>, <<"A", " ", "x">>, <<"A", ",", "x">>,
    <<"A", "_", "1">>, <<"A", "_", "1", " ", "x">>, <<"A", "_", "2">>,
    <<"A", "{", "x">>, <<"A", "}">>, <<"B">> }

RECURSIVE TargetHits(_)
TargetHits(order) ==
  IF order = <<>> THEN <<>>
  ELSE <<ProteinHit(Head(order), "target", 0)>> \o TargetHits(Tail(order))

\* one or two runs whose hits have the accessions S1 and S2
RunsWith(S1, S2) ==
  IF S2 = {} THEN <<LoadedRun(1, TargetHits(SetInOrder(S1)))>>
  ELSE <<LoadedRun(1, TargetHits(SetInOrder(S1))), LoadedRun(2, TargetHits(SetInOrder(S2)))>>

SomePeptides ==
  <<PeptideId("run1", TRUE, "Posterior Probability",
              <<PeptideHit(ONE, "PEPA", {AccA}, NoMeta)>>)>>

InitSanitize ==
  \E U \in {T \in SUBSET SanitizerAccessions : Cardinality(T) <= MaxAccessions}
           \cup {SanitizerAccessions} :
    \E S1 \in (IF Cardinality(U) <= MaxAccessions THEN SUBSET U \ {{}} ELSE {U}) :
      \E S2 \in {U \ S1} \cup (IF S1 # U THEN {U} ELSE {}) :
        InitWith(FALSE, FALSE, "Posterior Probability_score", 0, Prob(1, 1, 1),
                 RunsWith(S1, S2), SomePeptides)

NextSanitize == CheckInput \/ Sanitize

SpecSanitize == InitSanitize /\ [][NextSanitize]_vars

\* --------------------------------------------- the graph encoder on its own
DefaultHit(score) == PeptideHit(score, "PEPA", {AccA, AccB}, NoMeta)
MetaHit(score, p) ==
  PeptideHit(score, "PEPA", {AccA}, ("Posterior Probability_score" :> p))

\* hits whose primary score is below, in, at the end of and above [0, 1] or
\* not a number, and two hits to sort
PrimaryHitLists ==
  { <<DefaultHit(ONE)>>, <<DefaultHit(0 - 1)>>, <<DefaultHit(ONE + 1)>>, <<DefaultHit(NaN)>>,
    <<PeptideHit(0, "PEPA", {AccA}, NoMeta), PeptideHit(ONE + 1, "PEPB", {AccB}, NoMeta)>> }

\* hits with an alternate score that differs from the score
MetaHitLists == { <<MetaHit(1, ONE + 1)>>, <<MetaHit(ONE + 1, 1)>> }

\* hits that the encoder skips
SkippedHitLists ==
  { <<PeptideHit(ONE + 1, "", {AccA}, NoMeta)>>, <<>> }

Orientations ==
  { <<TRUE, "Posterior Probability">>, <<FALSE, "Posterior Error Probability">>,
    <<FALSE, "Consensus_PEPMatrix">>, <<FALSE, "XTandem">> }

GraphPeptideIds ==
  {PeptideId("run1", o[1], o[2], hl) : o \in Orientations, hl \in PrimaryHitLists}
  \cup {PeptideId("run1", TRUE, "Posterior Probability", hl) :
          hl \in MetaHitLists \cup SkippedHitLists}
  \cup {PeptideId("run1", FALSE, "XTandem", hl) : hl \in MetaHitLists}
  \cup {PeptideId("run1", TRUE, "Posterior Probability",
                  <<PeptideHit(1, "PEPC", {<<>>}, NoMeta)>>),
        PeptideId("run2", TRUE, "Posterior Probability", <<DefaultHit(ONE + 1)>>)}

GraphPeptideInputs ==
  UNION {[1..n -> GraphPeptideIds] : n \in 1..MaxPeptides}

TwoProteins ==
  <<LoadedRun(1, <<ProteinHit(AccA, "target", 0), ProteinHit(AccB, "decoy", 0)>>)>>

InitGraph ==
  \E pparam \in {"", "Posterior Probability_score"}, peps \in GraphPeptideInputs :
    InitWith(FALSE, FALSE, pparam, 0, Prob(1, 1, 1), TwoProteins, peps)

NextGraph == CheckInput \/ Sanitize \/ CreateTempDir \/ BuildParams \/ GenerateGraph

SpecGraph == InitGraph /\ [][NextGraph]_vars

\* --------------------------------------------------- the decoder on its own
ThreeProteins ==
  <<LoadedRun(1, <<ProteinHit(AccB, "decoy", 0), ProteinHit(AccAx, "target", 0),
                   ProteinHit(AccA, "target", 0)>>)>>

\* the token lists of a line: none, one or two of the tokens handed to the
\* engine, in any order, and lists with a token it was never given
TokenLists ==
  {<<>>} \cup {<<Tokens[i]>> : i \in DOMAIN Tokens}
         \cup {<<Tokens[i], Tokens[j]>> : i \in DOMAIN Tokens, j \in DOMAIN Tokens}
         \cup {<<UnknownToken>>, <<Tokens[1], UnknownToken>>}

DecodeLineInputs ==
  {GroupLine(p, toks) : p \in {0, 1, ONE}, toks \in TokenLists} \cup {EmptyLine}

DecodeResults ==
  {[best |-> NoBest, out |-> out] :
     out \in UNION {[1..n -> DecodeLineInputs] : n \in 0..MaxLines}}

InitDecode ==
  \E keep \in BOOLEAN :
    InitWith(FALSE, keep, "Posterior Probability_score", 0, Prob(1, 1, 1),
             ThreeProteins, SomePeptides)

NextDecode ==
  \/ CheckInput
  \/ Sanitize
  \/ CreateTempDir
  \/ BuildParams
  \/ GenerateGraph
  \/ StartFido
  \/ FidoFinished(DecodeResults)

SpecDecode == InitDecode /\ [][NextDecode]_vars

\* ------------------------------------------------ the choice of the mode alone
\* every way of setting none, some or all of the three probabilities
ProbSettings == {Prob(a, b, c) : a \in {0, 1}, b \in {0, 1}, c \in {0, ONE}}

InitMode ==
  \E sep \in BOOLEAN, pr \in ProbSettings, prots \in {TwoProteins, ThreeProteins} :
    InitWith(sep, FALSE, "Posterior Probability_score", 0, pr, prots, SomePeptides)

NextMode ==
  \/ CheckInput
  \/ Sanitize
  \/ CreateTempDir
  \/ BuildParams
  \/ GenerateGraph
  \/ GenerateProteinLists
  \/ StartFido

SpecMode == InitMode /\ [][NextMode]_vars

\* ------------------------------------------- the engine echoing its tokens
\* the characters for which isspace() holds in the "C" locale (the vertical
\* tab cannot be written in a string here)
WhiteSpace == {" ", "\t", "\n", "\f", "\r"}

\* the words that repeated `line >> accession` extracts from the rest of a
\* line: maximal runs of characters that are not white space
RECURSIVE ExtractWords(_, _)
ExtractWords(text, word) ==
  IF text = <<>> THEN (IF word = <<>> THEN <<>> ELSE <<word>>)
  ELSE IF Head(text) \in WhiteSpace
       THEN (IF word = <<>> THEN <<>> ELSE <<word>>) \o ExtractWords(Tail(text), <<>>)
       ELSE ExtractWords(Tail(text), Append(word, Head(text)))

RECURSIVE Joined(_)
Joined(toks) ==
  IF toks = <<>> THEN <<>>
  ELSE IF Len(toks) = 1 THEN Head(toks)
  ELSE Head(toks) \o <<" ", ",", " ">> \o Joined(Tail(toks))

\* the text "{ tok , tok , ... }" that follows the probability (line 481)
EchoText(toks) == <<"{", " ">> \o Joined(toks) \o <<" ", "}">>

\* a line of the standard output in which the engine lists the tokens `toks`
\* as they were written to the graph file
EchoLine(p, toks) ==
  [parsed |-> TRUE, probability |-> p, words |-> ExtractWords(EchoText(toks), <<>>),
   echoed |-> toks]

\* each token on its own, and all of them
EchoLines == {EchoLine(ONE, <<Tokens[i]>>) : i \in DOMAIN Tokens} \cup {EchoLine(ONE, Tokens)}

EchoResults ==
  {[best |-> NoBest, out |-> out] :
     out \in UNION {[1..n -> EchoLines] : n \in 1..MaxLines}}

\* accessions with and without unsafe characters, the empty accession, one
\* that starts with a brace, and one with a carriage return (a character
\* reference in the input file)
EchoAccessions ==
  { <<>>, <<"A">>, <<"A", " ", "x">>, <<"{", "x">>, <<"A", ",", "B">>, <<"B">>,
    <<"A", "\r", "B">> }

InitEcho ==
  \E S \in {T \in SUBSET EchoAccessions : T # {} /\ Cardinality(T) <= MaxAccessions} :
    \E acc \in S :
      InitWith(FALSE, FALSE, "Posterior Probability_score", 0, Prob(1, 1, 1),
               <<LoadedRun(1, TargetHits(SetInOrder(S)))>>,
               <<PeptideId("run1", TRUE, "Posterior Probability",
                           <<PeptideHit(ONE, "PEPA", {acc}, NoMeta)>>)>>)

NextEcho ==
  \/ CheckInput
  \/ Sanitize
  \/ CreateTempDir
  \/ BuildParams
  \/ GenerateGraph
  \/ StartFido
  \/ FidoFinished(EchoResults)

SpecEcho == InitEcho /\ [][NextEcho]_vars

\* ==================================================================== claims
\* the steps of main_ before the first call of runFido_
BeforeFido == {"check_input", "sanitize", "create_temp_dir", "fido_params", "merge"}

\* whether runFido_ has been called with run counter c
Called(c) ==
  /\ pc \notin BeforeFido
  /\ exit_code # "INPUT_FILE_EMPTY"
  /\ IF separate_runs THEN c >= 1 /\ c <= counter ELSE c = 0

\* the run that the call of runFido_ with counter c works on
RunOf(c) == IF separate_runs THEN proteins[c] ELSE IF merged THEN all_proteins ELSE proteins[1]

LabelMissing(run) ==
  \E j \in DOMAIN run.hits : run.hits[j].target_decoy \notin {"target", "decoy"}

Range(f) == {f[x] : x \in DOMAIN f}

\* C1: in separate-runs mode with two or more runs, the engine invocation of
\* every run k gets the path of the graph file written for run k (and, in
\* parameter-search mode, of the protein list written for run k) and no path
\* of a file written for another run.
C1_InvocationGetsOwnFiles ==
  (separate_runs /\ Len(proteins) >= 2) =>
    \A k \in DOMAIN invocations :
      LET c == invocations[k].counter
          args == Range(invocations[k].params)
      IN  /\ GraphPath(c) \in args
          /\ choose_params => ProteinsPath(c) \in args
          /\ \A d \in (1..Len(proteins)) \ {c} :
               GraphPath(d) \notin args /\ ProteinsPath(d) \notin args

\* C2 (as claimed): a run with a protein hit that has no target/decoy label
\* never has an input file for the engine written for it.
C2_NoFileForUnlabelledRun ==
  \A f \in files : Called(f.counter) => ~LabelMissing(RunOf(f.counter))

\* C2 (amended): in parameter-search mode a run with a protein hit that has
\* no target/decoy label never has its protein list file written and never
\* has the engine started for it, and main_ does not get past the protein
\* list encoding of that run: it is left by an input error raised for that
\* run.  (The graph file of the run is written before; direct mode does not
\* look at the label.)
C2_AbortBeforeProteinList ==
  choose_params =>
    \A c \in 0..Len(proteins) :
      (Called(c) /\ LabelMissing(RunOf(c))) =>
        /\ \A f \in files : f.path # ProteinsPath(c)
        /\ \A k \in DOMAIN invocations : invocations[k].counter # c
        /\ (c < counter \/ pc \notin {"write_graph", "write_proteins"}) =>
             /\ pc = "aborted"
             /\ thrown.counter = c
             /\ thrown.reason \in {"no target/decoy annotation", "score < 0",
                                   "score > 1", "lower scores are better"}

\* the label error is raised when the graph file of the run is already there
C2_Witness ==
  /\ pc = "aborted"
  /\ choose_params
  /\ thrown.reason = "no target/decoy annotation"
  /\ \E f \in files : f.path = GraphPath(thrown.counter)

\* C3: once an input-integrity error is raised for a run the engine is not
\* started for that run, and when the engine is started for a run the graph
\* encoding and (parameter-search mode) the protein list encoding of that
\* run have completed without error.
C3_EngineStartsOnlyAfterEncoding ==
  /\ thrown # NoException =>
       /\ pc = "aborted"
       /\ \A k \in DOMAIN invocations : invocations[k].counter # thrown.counter
  /\ pc = "wait_for_finished" =>
       /\ thrown = NoException
       /\ invocations[Len(invocations)].counter = counter
       /\ \E f \in files : f.path = GraphPath(counter)
       /\ choose_params => \E f \in files : f.path = ProteinsPath(counter)

\* an error raised for the second run, after the engine ran for the first
C3_Witness ==
  /\ pc = "aborted"
  /\ thrown.reason \in {"no decoys", "no target/decoy annotation", "score > 1"}
  /\ thrown.counter = 2
  /\ Len(invocations) = 1

\* the most hits a run holds
MaxHitsOf(prots) ==
  IF prots = <<>> THEN 0
  ELSE CHOOSE n \in {Len(prots[i].hits) : i \in DOMAIN prots} :
         \A i \in DOMAIN prots : Len(prots[i].hits) <= n

\* the first position, in forward order, of a hit with accession X
FirstOccurrence(prots, X) ==
  CHOOSE pos \in {<<i, j>> : i \in DOMAIN prots, j \in 1..MaxHitsOf(prots)} :
    /\ pos[2] \in DOMAIN prots[pos[1]].hits
    /\ prots[pos[1]].hits[pos[2]].accession = X
    /\ \A i \in DOMAIN prots : \A j \in DOMAIN prots[i].hits :
         prots[i].hits[j].accession = X =>
           (pos[1] < i \/ (pos[1] = i /\ pos[2] <= j))

\* C6: in pooled mode with two or more runs the merged run holds, for every
\* accession that occurs in some run, exactly one hit, and it is a copy of
\* the occurrence with the lowest (run index, hit index).
C6_FirstOccurrenceWins ==
  (merged /\ pc \in {"write_graph", "write_proteins", "start_fido",
                     "wait_for_finished", "write_back"}) =>
    /\ Len(proteins) >= 2
    /\ \A j \in DOMAIN all_proteins.hits :
         all_proteins.hits[j].accession \in AllAccessions(proteins)
    /\ \A X \in AllAccessions(proteins) :
         /\ Cardinality({j \in DOMAIN all_proteins.hits :
                           all_proteins.hits[j].accession = X}) = 1
         /\ \E j \in DOMAIN all_proteins.hits :
              all_proteins.hits[j] =
                proteins[FirstOccurrence(proteins, X)[1]].hits[FirstOccurrence(proteins, X)[2]]

\* an accession with two different hits in two runs has been merged
C6_Witness ==
  /\ merged
  /\ pc = "write_graph"
  /\ \E i \in DOMAIN proteins, k \in DOMAIN proteins :
       /\ i < k
       /\ \E j \in DOMAIN proteins[i].hits, l \in DOMAIN proteins[k].hits :
            /\ proteins[i].hits[j].accession = proteins[k].hits[l].accession
            /\ proteins[i].hits[j] # proteins[k].hits[l]

\* C7: in separate-runs mode the exit status is success iff the call of
\* runFido_ for the last run returned true, whatever the earlier calls returned.
C7_LastRunDecides ==
  (separate_runs /\ pc = "done" /\ exit_code # "INPUT_FILE_EMPTY") =>
    /\ Len(returns) = Len(proteins)
    /\ \A k \in DOMAIN returns : returns[k].counter = k
    /\ exit_code \in {"EXECUTION_OK", "EXTERNAL_PROGRAM_ERROR"}
    /\ (exit_code = "EXECUTION_OK") <=> returns[Len(returns)].success

\* a failed first run and a successful last run are reported as success
C7_Witness ==
  /\ separate_runs
  /\ pc = "done"
  /\ Len(returns) = 2
  /\ ~returns[1].success
  /\ returns[2].success
  /\ exit_code = "EXECUTION_OK"

\* some call of runFido_ returned false: an external-tool failure
Failed == \E k \in DOMAIN returns : ~returns[k].success

\* C8 (as claimed): after an external-tool failure main_ never ends without
\* having stored the output.
C8_FailureAlwaysStored ==
  (Failed /\ pc \in {"done", "aborted"}) => (pc = "done" /\ stored.written)

\* C8 (amended): an external-tool failure does not itself end main_: the
\* step that follows it is the next run (separate-runs mode) or the
\* write-back/store; main_ then goes on, step by step, to store and clean
\* up unless the processing of a later run ends it, and an exception that
\* ends it was raised for a later run than the failed one.
C8_FailureDoesNotAbort ==
  /\ [][(Len(returns') = Len(returns) + 1 /\ ~returns'[Len(returns')].success) =>
          IF separate_runs /\ counter < Len(proteins)
          THEN pc' = "write_graph" /\ counter' = counter + 1
          ELSE pc' \in {"write_back", "store"}]_vars
  /\ []((Failed /\ pc = "aborted") =>
          \A k \in DOMAIN returns : ~returns[k].success => thrown.counter > returns[k].counter)
  /\ []((Failed /\ pc \in {"clean_up", "done"}) => stored.written)
  /\ []((Failed /\ pc \notin {"done", "aborted", "crashed"}) => ENABLED Next)

\* after a failed run the output is stored and the clean-up is done
C8_Witness ==
  /\ Failed
  /\ pc = "done"
  /\ stored.written
  /\ separate_runs
  /\ ~returns[1].success
  /\ Len(returns) = 2

\* the best hit of an identification and the score that is resolved for it
BestHit(pep) == SortHits(pep.hits, pep.higher_score_better)[1]
Score(pep) == ResolvedScore(pep, BestHit(pep), prob_param)

\* the identifications whose best hit reaches the score validation
Qualifying == {i \in DOMAIN peptides : Qualifies(peptides[i], Protein.identifier)}

\* the primary score is used, lower is better, and the score type is none of
\* those that are converted
Unsuitable(pep) ==
  /\ prob_param = "" \/ prob_param \notin DOMAIN BestHit(pep).meta
  /\ ~pep.higher_score_better
  /\ pep.score_type \notin {"Posterior Error Probability", "posterior error probability",
                            "Consensus_PEPMatrix", "consensus_best"}

Rejected(pep) == DLess(Score(pep), 0) \/ DLess(ONE, Score(pep)) \/ Unsuitable(pep)

\* the graph encoder has run (specification SpecGraph)
GraphEncoded == pc \in {"write_proteins", "start_fido", "aborted"}

\* C4 (as claimed): graph encoding succeeds iff the resolved score s of the
\* best hit of every qualifying identification satisfies 0 <= s <= 1.
C4_SucceedsIffInRange ==
  GraphEncoded =>
    ((thrown = NoException) <=>
       \A i \in Qualifying :
         /\ Score(peptides[i]) # NaN
         /\ 0 <= Score(peptides[i])
         /\ Score(peptides[i]) <= ONE)

\* C4 (amended): graph encoding succeeds iff no qualifying identification has
\* a best hit whose resolved score is below 0 or above 1 or is a primary,
\* lower-is-better score of a type that is not converted; the error of the
\* first such hit names "score < 0" when the score is below 0, "score > 1"
\* when it is above 1 and "lower scores are better" otherwise.
C4_SucceedsIffNotRejected ==
  GraphEncoded =>
    /\ (thrown = NoException) <=> \A i \in Qualifying : ~Rejected(peptides[i])
    /\ thrown # NoException =>
         LET i == CHOOSE i \in Qualifying :
                    /\ Rejected(peptides[i])
                    /\ \A j \in Qualifying : j < i => ~Rejected(peptides[j])
         IN  thrown.reason =
               IF DLess(Score(peptides[i]), 0) THEN "score < 0"
               ELSE IF DLess(ONE, Score(peptides[i])) THEN "score > 1"
               ELSE "lower scores are better"

\* a hit with score 1 was accepted and the next one, above 1, was rejected
C4_Witness ==
  /\ pc = "aborted"
  /\ thrown.reason = "score > 1"
  /\ \E i \in Qualifying : Score(peptides[i]) = ONE /\ ~Unsuitable(peptides[i])
  /\ \E f \in files : Len(f.graph) > 0

\* the sanitizer has run (specification SpecSanitize)
Sanitized == pc = "create_temp_dir"

\* C5: after sanitization every accession of every hit of every run has
\* exactly one token, distinct accessions have distinct tokens, and
\* de-sanitizing the token of an accession gives the accession back.
C5_SanitizerIsBijection ==
  Sanitized =>
    /\ \A a \in AllAccessions(proteins) :
         /\ Cardinality({p \in sanitized_accessions_ : p[1] = a}) = 1
         /\ RightFind(sanitized_accessions_, LeftFind(sanitized_accessions_, a)) = a
    /\ \A p \in sanitized_accessions_ : p[1] \in AllAccessions(proteins)
    /\ \A p \in sanitized_accessions_, q \in sanitized_accessions_ :
         p[2] = q[2] => p[1] = q[1]

\* two accessions with the same safe prefix, one of them ending in "_1"
C5_Witness ==
  /\ Sanitized
  /\ {<<"A", "_", "1">>, <<"A", "_", "1", " ", "x">>} \subseteq AllAccessions(proteins)
  /\ Len(proteins) = 2

\* the decoder has returned true for the only run (specification SpecDecode)
Decoded == pc = "store" /\ fido_log.logged

TokensOf(line) == {k \in DOMAIN line.words : Len(line.words[k]) > 1}

\* the lines with probability 0.0
ZeroLines == {i \in DOMAIN stdout : stdout[i].parsed /\ stdout[i].probability = 0}

RECURSIVE SumOver(_, _)
SumOver(S, f) ==
  IF S = {} THEN 0
  ELSE LET x == CHOOSE x \in S : TRUE IN f[x] + SumOver(S \ {x}, f)

\* the number of tokens listed in the lines with probability 0.0
ZeroTokenCount == SumOver(ZeroLines, [i \in ZeroLines |-> Cardinality(TokensOf(stdout[i]))])

\* group g holds exactly the de-sanitized tokens of the line, each as often
\* as the line lists it
HoldsTokensOf(g, line) ==
  /\ Len(g.accessions) = Cardinality(TokensOf(line))
  /\ \A p \in sanitized_accessions_ :
       Cardinality({k \in DOMAIN g.accessions : g.accessions[k] = p[1]})
         = Cardinality({k \in TokensOf(line) : line.words[k] = p[2]})

\* C10: without keep_zero_group no group of the run has probability 0.0; with
\* it every 0.0 line that lists a token (all of them tokens of the mapping)
\* yields a group with probability 0.0 and exactly its de-sanitized
\* accessions; either way the zero-probability count that is logged is the
\* number of tokens listed in the 0.0 lines.
C10_ZeroProbabilityPolicy ==
  Decoded =>
    /\ fido_log.zero_proteins = ZeroTokenCount
    /\ ~keep_zero_group =>
         \A i \in DOMAIN proteins[1].groups : proteins[1].groups[i].probability # 0
    /\ keep_zero_group =>
         \A i \in ZeroLines :
           (/\ TokensOf(stdout[i]) # {}
            /\ \A k \in TokensOf(stdout[i]) :
                 RightFind(sanitized_accessions_, stdout[i].words[k]) # EndIterator) =>
             \E j \in DOMAIN proteins[1].groups :
               /\ proteins[1].groups[j].probability = 0
               /\ HoldsTokensOf(proteins[1].groups[j], stdout[i])

\* a 0.0 line with two tokens was dropped and another line was kept
C10_Witness ==
  /\ Decoded
  /\ ~keep_zero_group
  /\ fido_log.zero_proteins = 2
  /\ Len(stdout) = 2
  /\ Len(proteins[1].groups) = 1

\* the tokens of a line that the decoder de-sanitizes: those of a line whose
\* probability was read and that the zero-probability policy does not drop
SurvivingTokens(line) ==
  IF line.parsed /\ ~(line.probability = 0 /\ ~keep_zero_group)
  THEN {line.words[k] : k \in TokensOf(line)}
  ELSE {}

\* the standard output read last lists a surviving token that the mapping
\* does not hold
UnknownTokenSurvives ==
  \E i \in DOMAIN stdout : \E t \in SurvivingTokens(stdout[i]) :
    RightFind(sanitized_accessions_, t) = EndIterator

\* the runs as main_ holds them
AllRuns == Range(proteins) \cup {all_proteins}

\* C11: when the engine output lists a surviving token that is not in the
\* sanitizer mapping, an error is reported (main_ is left by an exception)
\* and no group is attached to a run from that output.
C11_UnknownTokenIsHardError ==
  UnknownTokenSurvives =>
    /\ pc = "aborted"
    /\ thrown # NoException
    /\ \A run \in AllRuns : \A i \in DOMAIN run.groups :
         \A k \in DOMAIN run.groups[i].accessions :
           run.groups[i].accessions[k] # EndIterator

\* C12: in pooled mode with two or more input runs the original runs are
\* never stored; what is stored is one run, the synthesized one, with an
\* empty identifier and one hit per distinct accession in ascending order of
\* the accessions, and every peptide identification stored has an empty
\* identifier; this does not depend on what runFido_ returned.
C12_PooledResultIsOneRun ==
  /\ (~separate_runs /\ Len(proteins) >= 2 /\ pc \notin BeforeFido
        /\ exit_code # "INPUT_FILE_EMPTY") =>
       (merged /\ ~stored.written)
  /\ (merged /\ stored.written) =>
       /\ ~separate_runs
       /\ Len(stored.proteins) = 1
       /\ stored.proteins[1].identifier = ""
       /\ \A i \in DOMAIN stored.peptides : stored.peptides[i].identifier = ""
       /\ [j \in DOMAIN stored.proteins[1].hits |-> stored.proteins[1].hits[j].accession]
            = SetInOrder({p[1] : p \in sanitized_accessions_})

\* the merged run of two input runs is stored after the engine failed
C12_Witness ==
  /\ merged
  /\ stored.written
  /\ ~returns[1].success
  /\ Len(stored.proteins[1].hits) = 2
  /\ Len(stored.peptides) = 2

\* the scores of the hits of a run, in the order of the hits
HitScores(run) == [j \in DOMAIN run.hits |-> run.hits[j].score]

\* the scores of the protein hits of all runs that main_ holds
AllHitScores == <<[i \in DOMAIN proteins |-> HitScores(proteins[i])], HitScores(all_proteins)>>

\* the groups of a run that list the accession
GroupsWith(run, acc) ==
  {i \in DOMAIN run.groups :
     \E k \in DOMAIN run.groups[i].accessions : run.groups[i].accessions[k] = acc}

\* C13: the scores of protein hits change only in the step that follows the
\* inference on the merged run of the pooled mode: there every hit whose
\* accession is listed in a group gets the probability of the group and every
\* other hit keeps its score; no other step, and no step in separate-runs
\* mode or in pooled mode with a single run, changes the score of a hit.
C13_ScoresChangeOnlyInWriteBack ==
  [][/\ (pc = "write_back" /\ pc' = "store") =>
          /\ merged /\ ~separate_runs
          /\ Len(all_proteins'.hits) = Len(all_proteins.hits)
          /\ \A j \in DOMAIN all_proteins.hits :
               /\ all_proteins'.hits[j].accession = all_proteins.hits[j].accession
               /\ IF GroupsWith(all_proteins, all_proteins.hits[j].accession) # {}
                  THEN \E i \in GroupsWith(all_proteins, all_proteins.hits[j].accession) :
                         all_proteins'.hits[j].score = all_proteins.groups[i].probability
                  ELSE all_proteins'.hits[j].score = all_proteins.hits[j].score
     /\ (pc # "write_back" /\ pc # "merge") => AllHitScores' = AllHitScores
     /\ (pc = "merge") => proteins' = proteins]_vars

\* after the write-back one hit of the merged run has the probability of its
\* group and another, listed in no group, has the score it was loaded with
C13_Witness ==
  /\ merged
  /\ pc = "store"
  /\ Len(all_proteins.groups) = 1
  /\ Len(all_proteins.hits) = 2
  /\ GroupsWith(all_proteins, all_proteins.hits[1].accession) = {1}
  /\ all_proteins.hits[1].score = all_proteins.groups[1].probability
  /\ GroupsWith(all_proteins, all_proteins.hits[2].accession) = {}
  /\ all_proteins.hits[2].score # all_proteins.groups[1].probability

\* the primary score is used, lower is better, and the score type is one of
\* those that are converted
Convertible(pep) ==
  /\ prob_param = "" \/ prob_param \notin DOMAIN BestHit(pep).meta
  /\ ~pep.higher_score_better
  /\ pep.score_type \in {"Posterior Error Probability", "posterior error probability",
                         "Consensus_PEPMatrix", "consensus_best"}

\* the identifications whose best hit the loop of the encoder reaches
Processed == {i \in Qualifying : \A j \in Qualifying : j < i => ~Rejected(peptides[j])}

\* the identifications for which a record is written
Written == {i \in Processed : ~Rejected(peptides[i])}

\* the k-th of them
NthWritten(k) == CHOOSE i \in Written : Cardinality({j \in Written : j <= i}) = k

\* the "p" lines of the graph file, in the order written
PLines ==
  LET f == CHOOSE f \in files : f.path = GraphPath(counter)
  IN  SelectSeq(f.graph, LAMBDA l : l.tag = "p")

\* C14: in one call of the graph encoder every best hit that is written and
\* whose primary, lower-is-better score s has the type 'posterior error
\* probability' (in any case) or a type starting with 'consensus_' is written
\* with probability 1 - s, every other hit with its score as resolved;
\* exactly one advisory is logged when the loop reaches such a hit, however
\* many there are, and none otherwise; a primary, lower-is-better score of
\* any other type makes the encoder throw.
C14_ConvertedOnceOneAdvisory ==
  GraphEncoded =>
    /\ warnings = IF \E i \in Processed : Convertible(peptides[i]) THEN 1 ELSE 0
    /\ Len(PLines) = Cardinality(Written)
    /\ \A k \in 1..Len(PLines) :
         LET pep == peptides[NthWritten(k)]
             s   == BestHit(pep).score
         IN  PLines[k].prob =
               IF Convertible(pep) THEN (IF s = NaN THEN NaN ELSE ONE - s)
               ELSE IF prob_param # "" /\ prob_param \in DOMAIN BestHit(pep).meta
                    THEN BestHit(pep).meta[prob_param]
                    ELSE s
    /\ \A i \in Processed :
         Unsuitable(peptides[i]) =>
           /\ pc = "aborted"
           /\ thrown.reason \in {"lower scores are better", "score < 0", "score > 1"}
           /\ thrown.stage = "graph"

\* two error probabilities were converted and written, one of them 0, and a
\* single advisory was logged
C14_Witness ==
  /\ pc = "start_fido"
  /\ warnings = 1
  /\ Written = {1, 2}
  /\ Convertible(peptides[1]) /\ Convertible(peptides[2])
  /\ BestHit(peptides[1]).score = 0
  /\ PLines[1].prob = ONE
  /\ peptides[2].score_type = "Consensus_PEPMatrix"

\* the engine has been started (specification SpecMode)
Started == pc = "wait_for_finished" /\ Len(invocations) = 1

\* the arguments of the direct mode: the graph path and the three values
DirectArguments ==
  <<GraphPath(counter), DoubleToString(prob.protein), DoubleToString(prob.peptide),
    DoubleToString(prob.spurious)>>

\* the engine was started as 'Fido' with the arguments of the direct mode
StartedDirectly ==
  /\ invocations[1].exe = "Fido"
  /\ invocations[1].params = DirectArguments

\* the engine was started as 'FidoChooseParameters' with the two file paths
StartedWithSearch ==
  /\ invocations[1].exe = "FidoChooseParameters"
  /\ invocations[1].params = <<GraphPath(counter), ProteinsPath(counter)>>

\* C15 (as claimed): the engine is started in direct mode exactly when all
\* three probabilities are set, and with the parameter search when only one
\* or two of them are set.
C15_DirectIffAllThreeSet ==
  Started =>
    /\ StartedDirectly <=> (prob.protein # 0 /\ prob.peptide # 0 /\ prob.spurious # 0)
    /\ ~(prob.protein # 0 /\ prob.peptide # 0 /\ prob.spurious # 0) => StartedWithSearch

\* C15 (amended): the engine is started with the parameter search exactly
\* when none of the three probabilities is set (all are 0); when one or more
\* of them are set it is started in direct mode, as 'Fido' with the graph
\* path and the three values, those not set as 0.
C15_DirectIffSomeSet ==
  Started =>
    /\ StartedDirectly <=> (prob.protein # 0 \/ prob.peptide # 0 \/ prob.spurious # 0)
    /\ StartedWithSearch <=> (prob.protein = 0 /\ prob.peptide = 0 /\ prob.spurious = 0)
    /\ choose_params <=> StartedWithSearch
    /\ choose_params <=> \E f \in files : f.path = ProteinsPath(counter)

\* only one probability is set and the engine runs directly, with "0" for
\* the two others
C15_Witness ==
  /\ Started
  /\ prob = Prob(1, 0, 0)
  /\ invocations[1].exe = "Fido"
  /\ invocations[1].params = <<GraphPath(counter), <<"0", ".", "5">>, <<"0">>, <<"0">> >>

\* the protein list files written so far
ProteinListFiles == {f \in files : f.path = ProteinsPath(f.counter)}

\* the tokens of the hits of a run that carry the label
TokensLabelled(run, label) ==
  {p[2] : p \in {q \in sanitized_accessions_ :
                   \E j \in DOMAIN run.hits : /\ run.hits[j].accession = q[1]
                                              /\ run.hits[j].target_decoy = label}}

\* what C16 says of a protein list file apart from the two lines being disjoint
ProteinListWellFormed(f) ==
  LET run == RunOf(f.counter)
  IN  /\ ~LabelMissing(run)
      /\ TokensLabelled(run, "target") # {}
      /\ TokensLabelled(run, "decoy") # {}
      /\ Len(f.proteins) = 2
      /\ Range(f.proteins[1]) = TokensLabelled(run, "target")
      /\ Range(f.proteins[2]) = TokensLabelled(run, "decoy")
      /\ Cardinality(Range(f.proteins[1])) = Len(f.proteins[1])
      /\ Cardinality(Range(f.proteins[2])) = Len(f.proteins[2])

\* C16 (as claimed): a protein list file is written only for a run whose hits
\* are all labelled 'target' or 'decoy' and include both; it has two lines,
\* the tokens of the target hits and the tokens of the decoy hits, each token
\* once per line, and no token is on both lines.
C16_TwoLinesPartition ==
  \A f \in ProteinListFiles :
    /\ ProteinListWellFormed(f)
    /\ Range(f.proteins[1]) \cap Range(f.proteins[2]) = {}

\* C16 (amended): as claimed, except that a token is on both lines exactly
\* when the run has a hit labelled 'target' and a hit labelled 'decoy' with
\* the accession of the token.
C16_TwoLinesByLabel ==
  \A f \in ProteinListFiles :
    /\ ProteinListWellFormed(f)
    /\ \A p \in sanitized_accessions_ :
         (p[2] \in Range(f.proteins[1]) \cap Range(f.proteins[2])) <=>
           \E j, k \in DOMAIN RunOf(f.counter).hits :
             /\ RunOf(f.counter).hits[j].accession = p[1]
             /\ RunOf(f.counter).hits[k].accession = p[1]
             /\ RunOf(f.counter).hits[j].target_decoy = "target"
             /\ RunOf(f.counter).hits[k].target_decoy = "decoy"

\* a list was written for a run with three hits of two accessions, one of
\* them labelled both ways: two tokens on the first line, one on the second
C16_Witness ==
  \E f \in ProteinListFiles :
    /\ Len(RunOf(f.counter).hits) = 3
    /\ Len(f.proteins[1]) = 2
    /\ Len(f.proteins[2]) = 1
    /\ f.proteins[2][1] \in Range(f.proteins[1])

\* C17: the temporary directory exists from before the first run is encoded
\* until the output is stored (every file is written into it), and when
\* main_ has stored the output and returned, the directory is gone if the
\* debug level is 0 or 1 and still there, with its files, if it is 2 or
\* more, whether or not the engine succeeded.
C17_TempDirLifecycle ==
  /\ pc \in {"merge", "write_graph", "write_proteins", "start_fido",
             "wait_for_finished", "write_back", "store", "clean_up"} => temp_dir_exists
  /\ files # {} => temp_dir_exists
  /\ (pc = "done" /\ stored.written) =>
       /\ temp_dir_exists <=> debug_level_ > 1
       /\ debug_level_ > 1 => \E f \in files : f.path = GraphPath(f.counter)

\* the engine failed, the output was stored, and at debug level 1 the
\* directory has been removed
C17_Witness ==
  /\ pc = "done"
  /\ stored.written
  /\ ~fido_success
  /\ debug_level_ = 1
  /\ ~temp_dir_exists
  /\ files = {}

\* the lines of the graph file
GraphFileLines == (CHOOSE f \in files : f.path = GraphPath(counter)).graph

\* the distinct non-empty accessions of the best hit, in ascending order
NonEmptyAccessions(pep) == SetInOrder(BestHit(pep).accessions \ {<<>>})

\* the record of the k-th identification that is written: an "e" line with
\* the sequence, an "r" line with the token of each non-empty accession,
\* and a "p" line
RecordOf(k) ==
  LET pep  == peptides[NthWritten(k)]
      accs == NonEmptyAccessions(pep)
  IN  <<[tag |-> "e", seq |-> BestHit(pep).sequence, tok |-> <<>>, prob |-> 0]>>
      \o [n \in DOMAIN accs |->
            [tag |-> "r", seq |-> "",
             tok |-> CHOOSE t \in {p[2] : p \in sanitized_accessions_} :
                       <<accs[n], t>> \in sanitized_accessions_,
             prob |-> 0]]
      \o <<[tag |-> "p", seq |-> "", tok |-> <<>>, prob |-> PLines[k].prob]>>

\* the records of the first k identifications that are written
RECURSIVE RecordsUpTo(_)
RecordsUpTo(k) == IF k = 0 THEN <<>> ELSE RecordsUpTo(k - 1) \o RecordOf(k)

\* identification i is for another run, has no hit, or its best hit has an
\* empty sequence or no accession
BestHitSkipped(i) ==
  \/ Protein.identifier # "" /\ peptides[i].identifier # Protein.identifier
  \/ peptides[i].hits = <<>>
  \/ BestHit(peptides[i]).sequence = ""
  \/ BestHit(peptides[i]).accessions = {}

\* C18 (as claimed): the graph file holds, in the order of the
\* identifications, one record for the best hit of every identification
\* that qualifies (and none for any other): one "e" line, one or more "r"
\* lines, one for each distinct non-empty accession, and one "p" line.
C18_RecordsWithProteinLines ==
  GraphEncoded =>
    /\ GraphFileLines = RecordsUpTo(Cardinality(Written))
    /\ \A i \in Written : NonEmptyAccessions(peptides[i]) # <<>>

\* C18 (amended): as claimed, but with zero or more "r" lines in a record:
\* none when the only accession of the hit is the empty one.
C18_RecordsInOrder ==
  GraphEncoded =>
    /\ GraphFileLines = RecordsUpTo(Cardinality(Written))
    /\ Len(PLines) = Cardinality(Written)
    /\ \A i \in DOMAIN peptides : BestHitSkipped(i) => i \notin Written

\* a record with two "r" lines is followed by a record with none
C18_Witness ==
  /\ pc = "start_fido"
  /\ Written = {1, 2}
  /\ Len(GraphFileLines) = 6
  /\ GraphFileLines[2].tag = "r" /\ GraphFileLines[3].tag = "r"
  /\ GraphFileLines[5].tag = "e" /\ GraphFileLines[6].tag = "p"

\* the accession has a token in the mapping
Registered(acc) == \E p \in sanitized_accessions_ : p[1] = acc

\* the graph encoder has run for the run that runFido_ works on
EncoderHasRun ==
  /\ pc \notin BeforeFido \cup {"write_graph"}
  /\ exit_code # "INPUT_FILE_EMPTY"

C20_FailureLeavesRunUnchanged ==
  /\ [][(Len(returns') = Len(returns) + 1 /\ ~returns'[Len(returns')].success) =>
          /\ pc = "wait_for_finished"
          /\ proteins' = proteins
          /\ all_proteins' = all_proteins
          /\ prob' = prob
          /\ stdout' = stdout
          /\ fido_log' = fido_log]_vars
  /\ [](\A k \in DOMAIN returns :
          ~returns[k].success =>
            \/ returns[k].cause = "not finished"
            \/ returns[k].cause = "caught an exception" /\ choose_params)

\* the parameter search reported an exception for a run that was loaded with
\* a group and meta values, and the run still has them
C20_Witness ==
  /\ Len(returns) = 1
  /\ ~returns[1].success
  /\ returns[1].cause = "caught an exception"
  /\ pc \in {"write_graph", "store"}
  /\ RunOf(returns[1].counter).groups # <<>>
  /\ RunOf(returns[1].counter).fido_meta.set

\* the accessions that the tokens `toks` stand for
Desanitized(toks) == [k \in DOMAIN toks |-> RightFind(sanitized_accessions_, toks[k])]

\* C21: every sanitized token has at least two characters and none of space,
\* tab, comma and the two braces, and when the engine lists tokens it was
\* given, the decoder reads from every line exactly the accessions of the
\* tokens listed, in their order: no token is dropped, split or taken for
\* punctuation, and no lookup fails (specification SpecEcho).
C21_EchoedTokensAreRead ==
  /\ \A p \in sanitized_accessions_ :
       /\ Len(p[2]) >= 2
       /\ \A k \in DOMAIN p[2] : p[2][k] \notin UnsafeChars
  /\ stdout # <<>> =>
       /\ pc # "crashed"
       /\ \A i \in DOMAIN stdout :
            LET a == ParseLine(stdout[i], keep_zero_group, sanitized_accessions_)
            IN  ~a.ub /\ a.accessions = Desanitized(stdout[i].echoed)

\* the runs were pooled into the synthesized run all_proteins
Pooled == ~separate_runs /\ merged

\* the accessions that de-sanitizing a token of the mapping can yield
Desanitizable == {p[1] : p \in sanitized_accessions_}

\* C22: once the runs are pooled, the accessions that de-sanitizing can yield
\* are exactly the accessions of the hits of the synthesized run, and when the
\* write-back starts every accession of every group of that run has a hit in
\* it, so that no findHit() of the write-back misses.
C22_WriteBackNeverMisses ==
  Pooled =>
    /\ Desanitizable = {all_proteins.hits[j].accession : j \in DOMAIN all_proteins.hits}
    /\ pc = "write_back" => ~WriteBackMisses(all_proteins)

\* the part of C22 about the two sets of accessions alone
PooledAccessionsAgree ==
  Pooled =>
    Desanitizable = {all_proteins.hits[j].accession : j \in DOMAIN all_proteins.hits}

\* the write-back misses only for what an unregistered token left in a group
MissesOnlyAfterUnknownToken ==
  (Pooled /\ pc = "write_back" /\ WriteBackMisses(all_proteins)) =>
    \E i \in DOMAIN all_proteins.groups :
      \E k \in DOMAIN all_proteins.groups[i].accessions :
        all_proteins.groups[i].accessions[k] = EndIterator

\* the number of calls of runFido_ that main_ makes when none of them throws
RunsToAttempt == IF separate_runs THEN Len(proteins) ELSE 1

\* C23: the output is stored at most once, and only when every call of
\* runFido_ that main_ makes has returned; once an encoder has raised an
\* input-integrity exception, main_ has ended and takes no further step:
\* the output is not stored and the temporary directory, with the files of
\* the runs processed before, is still there.
C23_StoredOnceAfterAllRuns ==
  /\ [][stored.written => stored' = stored]_vars
  /\ [](stored.written => Len(returns) = RunsToAttempt)
  /\ [](thrown # NoException =>
          /\ pc = "aborted"
          /\ ~stored.written
          /\ temp_dir_exists)
  /\ [][pc # "aborted"]_vars

\* in separate-runs mode the first run was inferred successfully and the
\* encoding of the second raised an exception
C23_Witness ==
  /\ separate_runs
  /\ thrown # NoException
  /\ thrown.counter = 2
  /\ Len(returns) = 1
  /\ returns[1].success
  /\ proteins[1].fido_meta.set
  /\ ~stored.written
  /\ temp_dir_exists

====
